---- MODULE Spec2Model ----
(***************************************************************************)
(* Model of the read-cache reconciliation of sugar                         *)
(* (src/src/read_cache/process.rs) and of the configuration conversions    *)
(* it relies on (src/src/config/data.rs).                                  *)
(*                                                                         *)
(* Strings are sequences of byte values, so that decimal formatting,      *)
(* integer parsing and byte-wise string comparison are computed and not    *)
(* assumed.                                                                *)
(***************************************************************************)
EXTENDS Integers, Sequences, FiniteSets

(* ------------------------------ bounds --------------------------------- *)

\* largest collection size (ConfigData.number) explored
MaxNumber == 2
\* largest number of entries in the cache file found on disk before a run
MaxInitLen == 2
\* largest number of keys of a cache handed to the reorder step on its own
MaxKeys == 4
\* number of runs of process_read_cache in one behaviour
MaxRuns == 2
\* width in bits of the integer type the comparator parses keys into
\* (i32 in the source; reduced so that keys beyond the range are reachable)
IntBits == 5

(* ------------------------------ strings -------------------------------- *)

\* the byte of a decimal digit
DigitChar(d) == 48 + d

IsDigit(c) == c \in 48..57

PlusChar == 43
MinusChar == 45

S_alpha == <<97, 108, 112, 104, 97>>
S_0 == <<48>>
S_1 == <<49>>
S_2 == <<50>>
S_10 == <<49, 48>>
S_01 == <<48, 49>>
S_plus1 == <<43, 49>>
S_minus3 == <<45, 51>>
S_99 == <<57, 57>>

RECURSIVE IndexToString(_)
\* u64::to_string: the decimal digits of n, no sign, no leading zero
IndexToString(n) ==
    IF n < 10 THEN <<DigitChar(n)>>
    ELSE IndexToString(n \div 10) \o <<DigitChar(n % 10)>>

RECURSIVE DigitsValue(_)
\* the number a string of decimal digits denotes
DigitsValue(s) ==
    IF s = <<>> THEN 0
    ELSE DigitsValue(SubSeq(s, 1, Len(s) - 1)) * 10 + (s[Len(s)] - 48)

IntMin == -(2 ^ (IntBits - 1))
IntMax == 2 ^ (IntBits - 1) - 1

ParseErr == [ok |-> FALSE, val |-> 0]

\* str::parse::<i32>: optional sign, at least one digit, digits only, and
\* the value must fit the integer type
ParseInt(s) ==
    LET signed == Len(s) > 0 /\ s[1] \in {PlusChar, MinusChar}
        neg == Len(s) > 0 /\ s[1] = MinusChar
        digits == IF signed THEN Tail(s) ELSE s
    IN  IF digits = <<>> \/ (\E i \in 1..Len(digits) : ~IsDigit(digits[i]))
        THEN ParseErr
        ELSE LET v == IF neg THEN -DigitsValue(digits) ELSE DigitsValue(digits)
             IN  IF v >= IntMin /\ v <= IntMax
                 THEN [ok |-> TRUE, val |-> v]
                 ELSE ParseErr

\* Ord for integers
IntCmp(x, y) == IF x < y THEN "Less" ELSE IF x > y THEN "Greater" ELSE "Equal"

RECURSIVE StrCmp(_, _)
\* Ord for str: byte-wise lexicographic, a proper prefix is smaller
StrCmp(a, b) ==
    IF a = <<>> /\ b = <<>> THEN "Equal"
    ELSE IF a = <<>> THEN "Less"
    ELSE IF b = <<>> THEN "Greater"
    ELSE IF a[1] < b[1] THEN "Less"
    ELSE IF a[1] > b[1] THEN "Greater"
    ELSE StrCmp(Tail(a), Tail(b))

(* ---------------------------- reorder step ----------------------------- *)


\* the closure with numeric keys compared as strings
KeyCmp_NumbersAsStrings(key_a, key_b) ==
    LET a == ParseInt(key_a)
        b == ParseInt(key_b)
    IN  IF ~a.ok /\ ~b.ok THEN StrCmp(key_a, key_b)
        ELSE IF a.ok /\ ~b.ok THEN "Greater"
        ELSE IF ~a.ok /\ b.ok THEN "Less"
        ELSE StrCmp(key_a, key_b)

\* the closure with the two mixed cases exchanged: numeric keys first
KeyCmp_NumbersFirst(key_a, key_b) ==
    LET a == ParseInt(key_a)
        b == ParseInt(key_b)
    IN  IF ~a.ok /\ ~b.ok THEN StrCmp(key_a, key_b)
        ELSE IF a.ok /\ ~b.ok THEN "Less"
        ELSE IF ~a.ok /\ b.ok THEN "Greater"
        ELSE IntCmp(a.val, b.val)

\* the closure given to sort_by
KeyCmp(key_a, key_b) ==
    LET a == ParseInt(key_a)
        b == ParseInt(key_b)
    IN  IF ~a.ok /\ ~b.ok THEN StrCmp(key_a, key_b)
        ELSE IF a.ok /\ ~b.ok THEN "Greater"
        ELSE IF ~a.ok /\ b.ok THEN "Less"
        ELSE IntCmp(a.val, b.val)


\* an unstable sort: e enters in front of the entries it compares equal to
InsertPos_BeforeEqual(sorted, e) ==
    LET notLess == {j \in 1..Len(sorted) : KeyCmp(sorted[j].key, e.key) # "Less"}
    IN  IF notLess = {} THEN Len(sorted) + 1
        ELSE CHOOSE j \in notLess : \A k \in notLess : j <= k

\* position at which e enters an already sorted sequence: behind every
\* entry that is not greater than it (the sort is stable)
InsertPos(sorted, e) ==
    LET greater == {j \in 1..Len(sorted) : KeyCmp(sorted[j].key, e.key) = "Greater"}
    IN  IF greater = {} THEN Len(sorted) + 1
        ELSE CHOOSE j \in greater : \A k \in greater : j <= k

InsertSorted(sorted, e) ==
    LET p == InsertPos(sorted, e)
    IN  SubSeq(sorted, 1, p - 1) \o <<e>> \o SubSeq(sorted, p, Len(sorted))

RECURSIVE SortBy(_)
\* IndexMap::sort_by with the closure above: a stable sort of the entries
SortBy(items) ==
    IF items = <<>> THEN <<>>
    ELSE InsertSorted(SortBy(SubSeq(items, 1, Len(items) - 1)), items[Len(items)])

(* ------------------------------ the cache ------------------------------ *)

KeysOf(items) == {items[j].key : j \in 1..Len(items)}

KeySeq(items) == [j \in 1..Len(items) |-> items[j].key]

HasKey(items, k) == \E j \in 1..Len(items) : items[j].key = k

ItemAt(items, k) == items[CHOOSE j \in 1..Len(items) : items[j].key = k].item

\* an insert that leaves an entry that is already there as it is
MapInsert_KeepExisting(items, k, v) ==
    IF HasKey(items, k)
    THEN items
    ELSE Append(items, [key |-> k, item |-> v])

\* IndexMap::insert: an existing key keeps its position and gets the new
\* value, a new key is appended
MapInsert(items, k, v) ==
    IF HasKey(items, k)
    THEN [j \in 1..Len(items) |->
             IF items[j].key = k THEN [key |-> k, item |-> v] ELSE items[j]]
    ELSE Append(items, [key |-> k, item |-> v])

\* Option values
None == <<>>
Some(x) == <<x>>

\* the CacheItem built by process_read_cache
CacheItem(name, image_hash, image_link, metadata_hash, metadata_link) ==
    [name |-> name,
     image_hash |-> image_hash,
     image_link |-> image_link,
     metadata_hash |-> metadata_hash,
     metadata_link |-> metadata_link,
     on_chain |-> FALSE,
     animation_hash |-> None,
     animation_link |-> None]

(* ------------------------------- hashing ------------------------------- *)

\* ring::digest::Context: the bytes fed so far
NewContext == <<>>


\* a context that is created anew for every chunk
ContextUpdate_KeepLast(context, part) == part

ContextUpdate(context, part) == context \o part

\* SHA-256 followed by HEXLOWER, taken as collision free: the digest
\* stands for the byte sequence that was fed, in the order it was fed
ContextFinish(context) == [sha256 |-> context]

\* encode_text
EncodeText(text) == ContextFinish(ContextUpdate(NewContext, text))

(* -------------------------- pattern expansion -------------------------- *)

\* a template is a sequence of bytes and placeholders; the placeholders
\* $ID$ and $ID+1$ are written as the negative values below
PlaceholderId == -1
PlaceholderIdPlusOne == -2

RECURSIVE ReplacePatterns(_, _)
\* replace_patterns: $ID$ becomes the index, $ID+1$ the index plus one
ReplacePatterns(template, index) ==
    IF template = <<>> THEN <<>>
    ELSE LET head == template[1]
             piece == IF head = PlaceholderId THEN IndexToString(index)
                      ELSE IF head = PlaceholderIdPlusOne THEN IndexToString(index + 1)
                      ELSE <<head>>
         IN  piece \o ReplacePatterns(Tail(template), index)

(* ------------------------- remote content ------------------------------ *)

\* separator of the two fields in the text of a metadata document
FieldSep == 44

\* the text of a metadata document with the given name and image
MetadataJson(name, image) == name \o <<FieldSep>> \o image

\* serde_json::from_str::<Metadata>: a text that is not a metadata document
\* is an error, otherwise the fields are what the text holds
ParseMetadata(text) ==
    LET seps == {j \in 1..Len(text) : text[j] = FieldSep}
    IN  IF Cardinality(seps) # 1
        THEN [ok |-> FALSE, name |-> <<>>, image |-> <<>>]
        ELSE LET p == CHOOSE j \in seps : TRUE
             IN  [ok |-> TRUE,
                  name |-> SubSeq(text, 1, p - 1),
                  image |-> SubSeq(text, p + 1, Len(text))]

\* reqwest: StatusCode::is_success
IsSuccess(status) == status >= 200 /\ status <= 299

StatusOk == 200
StatusNotFound == 404

NameTemplate == <<35, PlaceholderId>>
UriTemplate == <<117, PlaceholderId>>

\* links an image field may hold
ImgLinks == {<<105>>, <<106>>}

\* names a served metadata document may carry
ServedNames == {ReplacePatterns(NameTemplate, i) : i \in 0..MaxNumber}

\* what a server may hold at a metadata URL
MetaContents ==
    [status : {StatusOk, StatusNotFound},
     text : {MetadataJson(n, l) : n \in ServedNames, l \in ImgLinks} \cup {<<60>>}]

\* what a server may hold at an image URL
ImageContents ==
    {[status |-> StatusOk, body |-> <<1, 2>>],
     [status |-> StatusNotFound, body |-> <<4, 4>>]}

MetaUrls == {ReplacePatterns(UriTemplate, i) : i \in 0..MaxNumber}

Unknown == [known |-> FALSE, status |-> 0, body |-> <<>>]

Known(status, body) == [known |-> TRUE, status |-> status, body |-> body]

(* ------------------------- configuration and disk ---------------------- *)

Configs ==
    [number : 0..MaxNumber,
     hidden_settings : {None, Some([name |-> NameTemplate, uri |-> UriTemplate])}]

\* an entry written by an earlier tool run: on chain, with an animation
OldItem(k) ==
    [name |-> k,
     image_hash |-> [sha256 |-> <<0>>],
     image_link |-> <<111>>,
     metadata_hash |-> [sha256 |-> <<0>>],
     metadata_link |-> <<111>>,
     on_chain |-> TRUE,
     animation_hash |-> Some([sha256 |-> <<0>>]),
     animation_link |-> Some(<<111>>)]

InitKeys == {S_alpha, S_1, S_01}

\* sequences of pairwise distinct keys of the pool, up to the given length
DistinctSeqs(pool, maxLen) ==
    UNION {{q \in [1..n -> pool] : \A i, j \in 1..n : i # j => q[i] # q[j]} : n \in 0..maxLen}

EntriesOf(keys) == [j \in 1..Len(keys) |-> [key |-> keys[j], item |-> OldItem(keys[j])]]

DiskAbsent == [state |-> "absent", items |-> <<>>]
DiskCorrupt == [state |-> "corrupt", items |-> <<>>]
DiskCache(items) == [state |-> "ok", items |-> items]

Disks ==
    {DiskAbsent, DiskCorrupt}
        \cup {DiskCache(EntriesOf(q)) : q \in DistinctSeqs(InitKeys, MaxInitLen)}

(* ----------------- conversions of the configuration ------------------- *)

\* Result<T>
Ok(v) == [ok |-> TRUE, value |-> v]
Err(e) == [ok |-> FALSE, error |-> e]

HyphenChar == 45
ColonChar == 58
TChar == 84
ZChar == 90

SecondsPerDay == 86400

IsLeapYear(y) == (y % 4 = 0 /\ y % 100 # 0) \/ y % 400 = 0

DaysInMonth(y, m) ==
    IF m = 2 THEN (IF IsLeapYear(y) THEN 29 ELSE 28)
    ELSE IF m \in {4, 6, 9, 11} THEN 30 ELSE 31

\* days between Jan 1, 1970 and the given day of the proleptic Gregorian
\* calendar, negative before 1970
DaysFromCivil(y, m, d) ==
    LET yy == IF m <= 2 THEN y - 1 ELSE y
        era == yy \div 400
        yoe == yy - era * 400
        mp == IF m > 2 THEN m - 3 ELSE m + 9
        doy == (153 * mp + 2) \div 5 + d - 1
        doe == yoe * 365 + yoe \div 4 - yoe \div 100 + doy
    IN  era * 146097 + doe - 719468

\* str::parse::<DateTimeUtc> followed by .0.timestamp(), for the texts of
\* the shape YYYY-MM-DDThh:mm:ssZ; any other text here is one no format of
\* the parser accepts
ParseDateTimeUtc(s) ==
    LET shaped ==
            /\ Len(s) = 20
            /\ s[5] = HyphenChar /\ s[8] = HyphenChar /\ s[11] = TChar
            /\ s[14] = ColonChar /\ s[17] = ColonChar /\ s[20] = ZChar
            /\ \A i \in (1..19) \ {5, 8, 11, 14, 17} : IsDigit(s[i])
        y == DigitsValue(SubSeq(s, 1, 4))
        m == DigitsValue(SubSeq(s, 6, 7))
        d == DigitsValue(SubSeq(s, 9, 10))
        hh == DigitsValue(SubSeq(s, 12, 13))
        mm == DigitsValue(SubSeq(s, 15, 16))
        ss == DigitsValue(SubSeq(s, 18, 19))
    IN  IF ~shaped THEN ParseErr
        ELSE IF ~(m \in 1..12 /\ d >= 1 /\ hh <= 23 /\ mm <= 59 /\ ss <= 59)
        THEN ParseErr
        ELSE IF d > DaysInMonth(y, m) THEN ParseErr
        ELSE [ok |-> TRUE,
              val |-> DaysFromCivil(y, m, d) * SecondsPerDay
                        + hh * 3600 + mm * 60 + ss]

\* u64::try_from(i64)
U64TryFrom(n) == IF n >= 0 THEN Ok(n) ELSE Err("out of range")

\* a missing number becomes 0 instead of an error
EndSettingsToCandyFormat_DefaultNumber(self) ==
    IF self.end_setting_type = "Amount"
    THEN Ok([end_setting_type |-> "Amount",
             number |-> IF self.number = None THEN 0 ELSE self.number[1]])
    ELSE IF self.date = None
    THEN Err("No date set for Endsetting Date")
    ELSE LET parsed == ParseDateTimeUtc(self.date[1])
         IN  IF ~parsed.ok THEN Err("ParseError")
             ELSE IF ~U64TryFrom(parsed.val).ok
             THEN Err("Error: the date is prior to Jan 1, 1970.")
             ELSE Ok([end_setting_type |-> "Date",
                      number |-> U64TryFrom(parsed.val).value])

\* EndSettings::to_candy_format
EndSettingsToCandyFormat(self) ==
    IF self.end_setting_type = "Amount"
    THEN IF self.number = None
         THEN Err("No number set for EndSetting Amount")
         ELSE Ok([end_setting_type |-> "Amount", number |-> self.number[1]])
    ELSE IF self.date = None
    THEN Err("No date set for Endsetting Date")
    ELSE LET parsed == ParseDateTimeUtc(self.date[1])
         IN  IF ~parsed.ok THEN Err("ParseError")
             ELSE IF ~U64TryFrom(parsed.val).ok
             THEN Err("Error: the date is prior to Jan 1, 1970.")
             ELSE Ok([end_setting_type |-> "Date",
                      number |-> U64TryFrom(parsed.val).value])

\* length of the on-chain hash
HashLen == 32

ZeroHash == [i \in 1..HashLen |-> 0]

\* the hash string is cut or filled up with zeros to the length of the
\* on-chain hash
HiddenSettingsToCandyFormat_CutOrFill(self) ==
    [name |-> self.name,
     uri |-> self.uri,
     hash |-> [i \in 1..HashLen |->
                  IF i <= Len(self.hash) THEN self.hash[i] ELSE 0]]

\* HiddenSettings::to_candy_format
HiddenSettingsToCandyFormat(self) ==
    [name |-> self.name,
     uri |-> self.uri,
     hash |-> IF Len(self.hash) = HashLen THEN self.hash ELSE ZeroHash]

\* a date written as YYYY-MM-DDThh:mm:ssZ
Pad2(n) == <<DigitChar(n \div 10), DigitChar(n % 10)>>
Pad4(n) == Pad2(n \div 100) \o Pad2(n % 100)
Rfc3339(y, m, d, hh, mm, ss) ==
    Pad4(y) \o <<HyphenChar>> \o Pad2(m) \o <<HyphenChar>> \o Pad2(d)
        \o <<TChar>> \o Pad2(hh) \o <<ColonChar>> \o Pad2(mm)
        \o <<ColonChar>> \o Pad2(ss) \o <<ZChar>>

\* the dates explored, each with the Unix timestamp it denotes, None for a
\* text that is not a date
DateCases ==
    { [text |-> Rfc3339(1970, 1, 1, 0, 0, 0), timestamp |-> Some(0)],
      [text |-> Rfc3339(1970, 1, 2, 0, 0, 0), timestamp |-> Some(86400)],
      [text |-> Rfc3339(2000, 2, 29, 12, 0, 0), timestamp |-> Some(951825600)],
      [text |-> Rfc3339(2022, 1, 1, 0, 0, 0), timestamp |-> Some(1640995200)],
      [text |-> Rfc3339(1969, 12, 31, 23, 59, 59), timestamp |-> Some(-1)],
      [text |-> Rfc3339(1960, 6, 15, 0, 0, 0), timestamp |-> Some(-301276800)],
      [text |-> Rfc3339(2022, 13, 1, 0, 0, 0), timestamp |-> None],
      [text |-> Rfc3339(2021, 2, 29, 0, 0, 0), timestamp |-> None],
      [text |-> S_alpha, timestamp |-> None],
      [text |-> <<>>, timestamp |-> None] }

EndSettingsInputs ==
    [end_setting_type : {"Amount", "Date"},
     number : {None, Some(0), Some(7)},
     date : {None} \cup {Some(c.text) : c \in DateCases}]

\* hash strings shorter than, as long as and longer than the on-chain hash
HashInputs ==
    { <<>>,
      [i \in 1..(HashLen - 1) |-> 97],
      [i \in 1..HashLen |-> 97],
      [i \in 1..HashLen |-> 47 + i],
      [i \in 1..(HashLen + 1) |-> 97],
      [i \in 1..(2 * HashLen) |-> 102] }

HiddenSettingsInputs ==
    [name : {NameTemplate, S_alpha}, uri : {UriTemplate, <<>>}, hash : HashInputs]

(* ------------------------------- state --------------------------------- *)

VARIABLES
    config,          \* ConfigData read from args.config
    interrupted,     \* ReadCacheArgs.interrupted
    disk,            \* the cache file at args.cache
    remoteMeta,      \* what the servers hold at each metadata URL
    remoteImage,     \* what the servers hold at each image URL
    run,             \* number of the current run of process_read_cache
    pc,              \* position of the run
    result,          \* what the run returned
    cache,           \* cache.items, in memory
    index,           \* loop variable
    name,            \* replace_patterns(name, index)
    metadata_link,   \* replace_patterns(uri, index)
    response,        \* the response of the GET in flight
    metadata_text,
    image_link,
    metadata_hash,
    context,         \* digest context of encode_url
    input,           \* bytes of the stream not delivered yet
    arrived,         \* the chunks delivered by the stream, in order
    unsorted,        \* cache.items as handed to the reorder step
    once,            \* cache.items after one reorder, when it is applied again
    diskBefore,      \* the cache file when the run started
    loaded,          \* load_cache has been called in this run
    netCalls,        \* GET requests sent in this run
    reorders,        \* executions of the reorder step in this run
    writes,          \* writes of the cache file in this run
    printed,         \* println! calls of this run
    logged,          \* error! calls of this run
    upserted,        \* indices whose entry was inserted in this run
    badStatus,       \* indices for which a GET answered a non-success status
    end_settings,    \* an EndSettings of the configuration
    hidden,          \* a HiddenSettings of the configuration
    candy_end,       \* what EndSettings::to_candy_format returned, if called
    candy_hidden     \* what HiddenSettings::to_candy_format returned, if called

world == <<config, remoteMeta, remoteImage, run, diskBefore>>
iteration == <<name, metadata_link, metadata_text, image_link, metadata_hash>>
stream == <<context, input, arrived>>
sorting == <<unsorted, once>>
output == <<printed, logged>>
counters == <<loaded, reorders, writes>>
conversion == <<end_settings, hidden, candy_end, candy_hidden>>
vars == <<world, disk, interrupted, pc, result, cache, index, iteration,
          response, stream, sorting, output, counters, netCalls, upserted,
          badStatus, conversion>>

NoResponse == [status |-> 0, body |-> <<>>]

InitLocals ==
    /\ cache = <<>>
    /\ index = 0
    /\ name = <<>>
    /\ metadata_link = <<>>
    /\ response = NoResponse
    /\ metadata_text = <<>>
    /\ image_link = <<>>
    /\ metadata_hash = EncodeText(<<>>)
    /\ context = NewContext
    /\ input = <<>>
    /\ arrived = <<>>
    /\ unsorted = <<>>

InitHistory ==
    /\ loaded = FALSE
    /\ netCalls = 0
    /\ reorders = 0
    /\ writes = 0
    /\ printed = 0
    /\ logged = 0
    /\ upserted = {}
    /\ badStatus = {}

\* no conversion has been asked for
InitConversion ==
    /\ end_settings = [end_setting_type |-> "Amount", number |-> None, date |-> None]
    /\ hidden = [name |-> NameTemplate, uri |-> UriTemplate, hash |-> <<>>]
    /\ candy_end = None
    /\ candy_hidden = None

Init ==
    /\ InitConversion
    /\ config \in Configs
    /\ interrupted = FALSE
    /\ disk \in Disks
    /\ diskBefore = disk
    /\ remoteMeta = [u \in MetaUrls |-> Unknown]
    /\ remoteImage = [u \in ImgLinks |-> Unknown]
    /\ run = 1
    /\ pc = "start"
    /\ result = "none"
    /\ once = <<>>
    /\ InitLocals
    /\ InitHistory

(* --------------------------- process_read_cache ------------------------ *)

\* return Err(kind)
Fail(kind) ==
    /\ pc' = "done"
    /\ result' = kind

\* the run moves on to the given position
Goto(position) ==
    /\ pc' = position
    /\ result' = result

HiddenSettings == config.hidden_settings[1]

\* get_config_data(&args.config)?
GetConfigData ==
    /\ pc = "start"
    /\ UNCHANGED conversion
    /\ \/ Fail("ConfigError")
       \/ Goto("load")
    /\ UNCHANGED <<world, disk, interrupted, cache, index, iteration, response,
                   stream, sorting, output, counters, netCalls, upserted,
                   badStatus>>

\* load_cache(&args.cache, true)?: a missing file gives an empty cache in
\* memory, an unreadable one is an error; the file is not written
LoadCache ==
    /\ pc = "load"
    /\ UNCHANGED conversion
    /\ loaded' = TRUE
    /\ IF disk.state = "corrupt"
       THEN Fail("LoadError") /\ cache' = cache
       ELSE Goto("check") /\ cache' = disk.items
    /\ UNCHANGED <<world, disk, interrupted, index, iteration, response,
                   stream, sorting, output, reorders, writes, netCalls,
                   upserted, badStatus>>


\* the else branch without its return: the run goes on to reorder and sync
CheckHiddenSettings_NoReturn ==
    /\ pc = "check"
    /\ UNCHANGED conversion
    /\ IF config.hidden_settings = None
       THEN Goto("reorder") /\ logged' = logged + 1
       ELSE Goto("loop") /\ logged' = logged
    /\ UNCHANGED <<world, disk, interrupted, cache, index, iteration, response,
                   stream, sorting, printed, counters, netCalls, upserted,
                   badStatus>>

\* if let Some(HiddenSettings { name, uri, .. }) = config_data.hidden_settings
\* ... else { error!; return Err }
CheckHiddenSettings ==
    /\ pc = "check"
    /\ UNCHANGED conversion
    /\ IF config.hidden_settings = None
       THEN Fail("UnsupportedConfiguration") /\ logged' = logged + 1
       ELSE Goto("loop") /\ logged' = logged
    /\ UNCHANGED <<world, disk, interrupted, cache, index, iteration, response,
                   stream, sorting, printed, counters, netCalls, upserted,
                   badStatus>>

\* the loop looks at the interrupted flag and breaks, the run then reorders
\* and writes what it has
LoopHead_BreakOnInterrupt ==
    /\ pc = "loop"
    /\ UNCHANGED conversion
    /\ IF index < config.number /\ ~interrupted
       THEN /\ printed' = printed + 1
            /\ name' = ReplacePatterns(HiddenSettings.name, index)
            /\ metadata_link' = ReplacePatterns(HiddenSettings.uri, index)
            /\ Goto("meta_send")
       ELSE /\ Goto("reorder")
            /\ UNCHANGED <<printed, name, metadata_link>>
    /\ UNCHANGED <<world, disk, interrupted, cache, index, metadata_text,
                   image_link, metadata_hash, response, stream, sorting, logged,
                   counters, netCalls, upserted, badStatus>>

\* the end of the loop goes to sync_file directly, without the reorder
LoopHead_NoReorder ==
    /\ pc = "loop"
    /\ UNCHANGED conversion
    /\ IF index < config.number
       THEN /\ printed' = printed + 1
            /\ name' = ReplacePatterns(HiddenSettings.name, index)
            /\ metadata_link' = ReplacePatterns(HiddenSettings.uri, index)
            /\ Goto("meta_send")
       ELSE /\ Goto("sync")
            /\ UNCHANGED <<printed, name, metadata_link>>
    /\ UNCHANGED <<world, disk, interrupted, cache, index, metadata_text,
                   image_link, metadata_hash, response, stream, sorting, logged,
                   counters, netCalls, upserted, badStatus>>

\* the loop without its println!
LoopHead_NoPrint ==
    /\ pc = "loop"
    /\ UNCHANGED conversion
    /\ IF index < config.number
       THEN /\ name' = ReplacePatterns(HiddenSettings.name, index)
            /\ metadata_link' = ReplacePatterns(HiddenSettings.uri, index)
            /\ Goto("meta_send")
       ELSE /\ Goto("reorder")
            /\ UNCHANGED <<name, metadata_link>>
    /\ UNCHANGED <<world, disk, interrupted, cache, index, metadata_text,
                   image_link, metadata_hash, response, stream, sorting, output,
                   counters, netCalls, upserted, badStatus>>

\* for index in 0..config_data.number: println!, replace_patterns twice
LoopHead ==
    /\ pc = "loop"
    /\ UNCHANGED conversion
    /\ IF index < config.number
       THEN /\ printed' = printed + 1
            /\ name' = ReplacePatterns(HiddenSettings.name, index)
            /\ metadata_link' = ReplacePatterns(HiddenSettings.uri, index)
            /\ Goto("meta_send")
       ELSE /\ Goto("reorder")
            /\ UNCHANGED <<printed, name, metadata_link>>
    /\ UNCHANGED <<world, disk, interrupted, cache, index, metadata_text,
                   image_link, metadata_hash, response, stream, sorting, logged,
                   counters, netCalls, upserted, badStatus>>

\* the status of a response is recorded when it is not a success
NoteStatus(status) ==
    badStatus' = IF IsSuccess(status) THEN badStatus ELSE badStatus \cup {index}


\* what a GET of a metadata URL may be answered with: what the server is
\* known to hold there, or anything when it was not asked before
ServedAt(content) ==
    IF content.known
    THEN {[status |-> content.status, text |-> content.body]}
    ELSE MetaContents

\* best effort instead of fail fast: an index whose metadata cannot be
\* fetched is skipped
MetaSend_SkipOnError ==
    /\ pc = "meta_send"
    /\ UNCHANGED conversion
    /\ netCalls' = netCalls + 1
    /\ \/ /\ Goto("loop")
          /\ index' = index + 1
          /\ UNCHANGED <<remoteMeta, response, badStatus>>
       \/ \E c \in ServedAt(remoteMeta[metadata_link]) :
             /\ remoteMeta' = [remoteMeta EXCEPT ![metadata_link] = Known(c.status, c.text)]
             /\ response' = [status |-> c.status, body |-> c.text]
             /\ NoteStatus(c.status)
             /\ Goto("meta_text")
             /\ index' = index
    /\ UNCHANGED <<config, remoteImage, run, diskBefore, disk, interrupted,
                   cache, iteration, stream, sorting, output, counters,
                   upserted>>

\* http_client.get(&metadata_link).send().await?: a transport failure is
\* an error, a response of any status is not
MetaSend ==
    /\ pc = "meta_send"
    /\ UNCHANGED conversion
    /\ netCalls' = netCalls + 1
    /\ \/ /\ Fail("FetchError")
          /\ UNCHANGED <<remoteMeta, response, badStatus>>
       \/ \E c \in ServedAt(remoteMeta[metadata_link]) :
             /\ remoteMeta' = [remoteMeta EXCEPT ![metadata_link] = Known(c.status, c.text)]
             /\ response' = [status |-> c.status, body |-> c.text]
             /\ NoteStatus(c.status)
             /\ Goto("meta_text")
    /\ UNCHANGED <<config, remoteImage, run, diskBefore, disk, interrupted,
                   cache, index, iteration, stream, sorting, output, counters,
                   upserted>>

\* .text().await?
MetaText ==
    /\ pc = "meta_text"
    /\ UNCHANGED conversion
    /\ \/ Fail("FetchError") /\ metadata_text' = metadata_text
       \/ Goto("validate") /\ metadata_text' = response.body
    /\ UNCHANGED <<world, disk, interrupted, cache, index, name, metadata_link,
                   image_link, metadata_hash, response, stream, sorting, output,
                   counters, netCalls, upserted, badStatus>>


\* the name check only logs the mismatch and goes on
Validate_NoNameCheck ==
    /\ pc = "validate"
    /\ UNCHANGED conversion
    /\ LET metadata == ParseMetadata(metadata_text)
       IN  IF ~metadata.ok
           THEN /\ Fail("MetadataParseError")
                /\ logged' = logged + 1
                /\ UNCHANGED <<metadata_hash, image_link>>
           ELSE /\ metadata_hash' = EncodeText(metadata_text)
                /\ image_link' = metadata.image
                /\ Goto("image_send")
                /\ logged' = IF metadata.name # name THEN logged + 1 ELSE logged
    /\ UNCHANGED <<world, disk, interrupted, cache, index, name, metadata_link,
                   metadata_text, response, stream, sorting, printed, counters,
                   netCalls, upserted, badStatus>>

\* serde_json::from_str, the check of metadata.name, encode_text
Validate ==
    /\ pc = "validate"
    /\ UNCHANGED conversion
    /\ LET metadata == ParseMetadata(metadata_text)
       IN  IF ~metadata.ok
           THEN /\ Fail("MetadataParseError")
                /\ logged' = logged + 1
                /\ UNCHANGED <<metadata_hash, image_link>>
           ELSE IF metadata.name # name
           THEN /\ Fail("NameMismatch")
                /\ logged' = logged + 1
                /\ UNCHANGED <<metadata_hash, image_link>>
           ELSE /\ metadata_hash' = EncodeText(metadata_text)
                /\ image_link' = metadata.image
                /\ Goto("image_send")
                /\ logged' = logged
    /\ UNCHANGED <<world, disk, interrupted, cache, index, name, metadata_link,
                   metadata_text, response, stream, sorting, printed, counters,
                   netCalls, upserted, badStatus>>

\* best effort instead of fail fast: an index whose image cannot be fetched
\* is skipped
ImageSend_SkipOnError ==
    /\ pc = "image_send"
    /\ UNCHANGED conversion
    /\ netCalls' = netCalls + 1
    /\ \/ /\ Goto("loop")
          /\ index' = index + 1
          /\ UNCHANGED <<remoteImage, response, badStatus, stream>>
       \/ \E c \in ImageContents :
             /\ remoteImage[image_link].known =>
                    /\ c.status = remoteImage[image_link].status
                    /\ c.body = remoteImage[image_link].body
             /\ remoteImage' = [remoteImage EXCEPT ![image_link] = Known(c.status, c.body)]
             /\ response' = [status |-> c.status, body |-> c.body]
             /\ NoteStatus(c.status)
             /\ input' = c.body
             /\ context' = NewContext
             /\ arrived' = <<>>
             /\ Goto("image_next")
             /\ index' = index
    /\ UNCHANGED <<config, remoteMeta, run, diskBefore, disk, interrupted,
                   cache, iteration, sorting, output, counters, upserted>>

\* encode_url: http_client.get(url).send().await?.bytes_stream() and a new
\* digest context
ImageSend ==
    /\ pc = "image_send"
    /\ UNCHANGED conversion
    /\ netCalls' = netCalls + 1
    /\ \/ /\ Fail("FetchError")
          /\ UNCHANGED <<remoteImage, response, badStatus, stream>>
       \/ \E c \in ImageContents :
             /\ remoteImage[image_link].known =>
                    /\ c.status = remoteImage[image_link].status
                    /\ c.body = remoteImage[image_link].body
             /\ remoteImage' = [remoteImage EXCEPT ![image_link] = Known(c.status, c.body)]
             /\ response' = [status |-> c.status, body |-> c.body]
             /\ NoteStatus(c.status)
             /\ input' = c.body
             /\ context' = NewContext
             /\ arrived' = <<>>
             /\ Goto("image_next")
    /\ UNCHANGED <<config, remoteMeta, run, diskBefore, disk, interrupted,
                   cache, index, iteration, sorting, output, counters, upserted>>

\* input.next().await gives Some(Ok(part)): context.update(&part)
StreamChunk ==
    /\ pc = "image_next"
    /\ UNCHANGED conversion
    /\ input # <<>>
    /\ \E k \in 1..Len(input) :
          LET part == SubSeq(input, 1, k)
          IN  /\ context' = ContextUpdate(context, part)
              /\ arrived' = Append(arrived, part)
              /\ input' = SubSeq(input, k + 1, Len(input))
    /\ UNCHANGED <<world, disk, interrupted, pc, result, cache, index,
                   iteration, response, sorting, output, counters, netCalls,
                   upserted, badStatus>>


\* a failed chunk ends the loop like the end of the stream: the digest of
\* the bytes received so far is returned and inserted
StreamError_Finalize ==
    /\ pc = "image_next"
    /\ UNCHANGED conversion
    /\ LET image_hash == ContextFinish(context)
       IN  cache' = MapInsert(cache, IndexToString(index),
                        CacheItem(name, image_hash, image_link, metadata_hash,
                                  metadata_link))
    /\ upserted' = upserted \cup {index}
    /\ index' = index + 1
    /\ Goto("loop")
    /\ UNCHANGED <<world, disk, interrupted, iteration, response, stream,
                   sorting, output, counters, netCalls, badStatus>>

\* input.next().await gives Some(Err(_)): part? returns the error
StreamError ==
    /\ pc = "image_next"
    /\ UNCHANGED conversion
    /\ Fail("TransferError")
    /\ UNCHANGED <<world, disk, interrupted, cache, index, iteration, response,
                   stream, sorting, output, counters, netCalls, upserted,
                   badStatus>>


\* the item is inserted at the key of the next index
StreamEnd_KeyOffByOne ==
    /\ pc = "image_next"
    /\ UNCHANGED conversion
    /\ input = <<>>
    /\ LET image_hash == ContextFinish(context)
       IN  cache' = MapInsert(cache, IndexToString(index + 1),
                        CacheItem(name, image_hash, image_link, metadata_hash,
                                  metadata_link))
    /\ upserted' = upserted \cup {index}
    /\ index' = index + 1
    /\ Goto("loop")
    /\ UNCHANGED <<world, disk, interrupted, iteration, response, stream,
                   sorting, output, counters, netCalls, badStatus>>

\* input.next().await gives None: encode_url returns the digest, and
\* process_read_cache inserts the item at index.to_string()
StreamEnd ==
    /\ pc = "image_next"
    /\ UNCHANGED conversion
    /\ input = <<>>
    /\ LET image_hash == ContextFinish(context)
       IN  cache' = MapInsert(cache, IndexToString(index),
                        CacheItem(name, image_hash, image_link, metadata_hash,
                                  metadata_link))
    /\ upserted' = upserted \cup {index}
    /\ index' = index + 1
    /\ Goto("loop")
    /\ UNCHANGED <<world, disk, interrupted, iteration, response, stream,
                   sorting, output, counters, netCalls, badStatus>>

\* cache.items.sort_by(...)
Reorder ==
    /\ pc = "reorder"
    /\ UNCHANGED conversion
    /\ unsorted' = cache
    /\ cache' = SortBy(cache)
    /\ reorders' = reorders + 1
    /\ Goto("sync")
    /\ UNCHANGED <<world, disk, interrupted, index, iteration, response, stream,
                   once, output, loaded, writes, netCalls, upserted, badStatus>>

\* cache.sync_file()?; Ok(()): the file is replaced as a whole or, on a
\* write failure, left as it was
SyncFile ==
    /\ pc = "sync"
    /\ UNCHANGED conversion
    /\ \/ /\ Fail("IoError")
          /\ UNCHANGED <<disk, writes>>
       \/ /\ disk' = DiskCache(cache)
          /\ writes' = writes + 1
          /\ pc' = "done"
          /\ result' = "Ok"
    /\ UNCHANGED <<world, interrupted, cache, index, iteration, response,
                   stream, sorting, output, loaded, reorders, netCalls,
                   upserted, badStatus>>

\* the handler of the interrupt signal sets the flag; process_read_cache
\* never reads it
Interrupt ==
    /\ pc # "done"
    /\ UNCHANGED conversion
    /\ ~interrupted
    /\ interrupted' = TRUE
    /\ UNCHANGED <<world, disk, pc, result, cache, index, iteration, response,
                   stream, sorting, output, counters, netCalls, upserted,
                   badStatus>>

\* the operator runs the command again after a successful run, with the
\* same configuration and against the same servers
Rerun ==
    /\ pc = "done"
    /\ UNCHANGED conversion
    /\ result = "Ok"
    /\ run < MaxRuns
    /\ run' = run + 1
    /\ diskBefore' = disk
    /\ pc' = "start"
    /\ result' = "none"
    /\ cache' = <<>>
    /\ index' = 0
    /\ name' = <<>>
    /\ metadata_link' = <<>>
    /\ response' = NoResponse
    /\ metadata_text' = <<>>
    /\ image_link' = <<>>
    /\ metadata_hash' = EncodeText(<<>>)
    /\ context' = NewContext
    /\ input' = <<>>
    /\ arrived' = <<>>
    /\ unsorted' = <<>>
    /\ loaded' = FALSE
    /\ netCalls' = 0
    /\ reorders' = 0
    /\ writes' = 0
    /\ printed' = 0
    /\ logged' = 0
    /\ upserted' = {}
    /\ badStatus' = {}
    /\ UNCHANGED <<config, disk, remoteMeta, remoteImage, interrupted, once>>

Next ==
    \/ GetConfigData
    \/ LoadCache
    \/ CheckHiddenSettings
    \/ LoopHead
    \/ MetaSend
    \/ MetaText
    \/ Validate
    \/ ImageSend
    \/ StreamChunk
    \/ StreamError
    \/ StreamEnd
    \/ Reorder
    \/ SyncFile
    \/ Interrupt
    \/ Rerun

Spec == Init /\ [][Next]_vars

(* ------------------ collections beyond the integer range ---------------- *)

\* the smallest collection size with an index whose key does not parse
WideNumber == IntMax + 2

\* a collection of WideNumber assets, all published correctly, and no cache
\* file yet
InitWide ==
    /\ InitConversion
    /\ config = [number |-> WideNumber,
                 hidden_settings |-> Some([name |-> NameTemplate, uri |-> UriTemplate])]
    /\ interrupted = FALSE
    /\ disk = DiskAbsent
    /\ diskBefore = disk
    /\ remoteMeta =
          [u \in {ReplacePatterns(UriTemplate, i) : i \in 0..(WideNumber - 1)} |->
              LET i == CHOOSE j \in 0..(WideNumber - 1) : ReplacePatterns(UriTemplate, j) = u
              IN  Known(StatusOk, MetadataJson(ReplacePatterns(NameTemplate, i), <<105>>))]
    /\ remoteImage = [u \in ImgLinks |-> Known(StatusOk, <<1, 2>>)]
    /\ run = 1
    /\ pc = "start"
    /\ result = "none"
    /\ once = <<>>
    /\ InitLocals
    /\ InitHistory

SpecWide == InitWide /\ [][Next]_vars

(* ------------------- the conversions on their own ----------------------- *)

\* a call of EndSettings::to_candy_format
ConvertEndSettings ==
    /\ candy_end' = Some(EndSettingsToCandyFormat(end_settings))
    /\ UNCHANGED <<world, disk, interrupted, pc, result, cache, index,
                   iteration, response, stream, sorting, output, counters,
                   netCalls, upserted, badStatus, end_settings, hidden,
                   candy_hidden>>

\* a call of HiddenSettings::to_candy_format
ConvertHiddenSettings ==
    /\ candy_hidden' = Some(HiddenSettingsToCandyFormat(hidden))
    /\ UNCHANGED <<world, disk, interrupted, pc, result, cache, index,
                   iteration, response, stream, sorting, output, counters,
                   netCalls, upserted, badStatus, end_settings, hidden,
                   candy_end>>

InitCandy ==
    /\ end_settings \in EndSettingsInputs
    /\ hidden \in HiddenSettingsInputs
    /\ candy_end = None
    /\ candy_hidden = None
    /\ config = [number |-> 0, hidden_settings |-> None]
    /\ interrupted = FALSE
    /\ disk = DiskAbsent
    /\ diskBefore = disk
    /\ remoteMeta = [u \in MetaUrls |-> Unknown]
    /\ remoteImage = [u \in ImgLinks |-> Unknown]
    /\ run = 1
    /\ pc = "start"
    /\ result = "none"
    /\ once = <<>>
    /\ InitLocals
    /\ InitHistory

NextCandy ==
    \/ ConvertEndSettings
    \/ ConvertHiddenSettings

SpecCandy == InitCandy /\ [][NextCandy]_vars

(* ----------------------- the reorder step on its own -------------------- *)

SortKeys == {S_10, S_2, S_alpha, S_1, S_01, S_plus1, S_minus3, S_99}

\* the reorder step applied to an already reordered cache
ReorderAgain ==
    /\ pc = "sync"
    /\ UNCHANGED conversion
    /\ once' = cache
    /\ cache' = SortBy(cache)
    /\ reorders' = reorders + 1
    /\ Goto("reordered_twice")
    /\ UNCHANGED <<world, disk, interrupted, index, iteration, response, stream,
                   unsorted, output, loaded, writes, netCalls, upserted,
                   badStatus>>

\* a loaded cache of any keys in any order, about to be reordered
InitReorder ==
    /\ InitConversion
    /\ config = [number |-> 0, hidden_settings |-> Some([name |-> NameTemplate, uri |-> UriTemplate])]
    /\ interrupted = FALSE
    /\ cache \in {EntriesOf(q) : q \in DistinctSeqs(SortKeys, MaxKeys)}
    /\ disk = DiskCache(cache)
    /\ diskBefore = disk
    /\ remoteMeta = [u \in MetaUrls |-> Unknown]
    /\ remoteImage = [u \in ImgLinks |-> Unknown]
    /\ run = 1
    /\ pc = "reorder"
    /\ result = "none"
    /\ once = <<>>
    /\ index = 0
    /\ name = <<>>
    /\ metadata_link = <<>>
    /\ response = NoResponse
    /\ metadata_text = <<>>
    /\ image_link = <<>>
    /\ metadata_hash = EncodeText(<<>>)
    /\ context = NewContext
    /\ input = <<>>
    /\ arrived = <<>>
    /\ unsorted = <<>>
    /\ loaded = TRUE
    /\ netCalls = 0
    /\ reorders = 0
    /\ writes = 0
    /\ printed = 0
    /\ logged = 0
    /\ upserted = {}
    /\ badStatus = {}

NextReorder ==
    \/ Reorder
    \/ ReorderAgain

SpecReorder == InitReorder /\ [][NextReorder]_vars

(* ------------------------------ properties ----------------------------- *)

\* the errors an iteration of the loop can end the run with
IterationErrors == {"FetchError", "MetadataParseError", "NameMismatch", "TransferError"}

Finished == pc = "done"

Succeeded == pc = "done" /\ result = "Ok"

IndexKeys == {IndexToString(i) : i \in 0..(config.number - 1)}

\* the name process_read_cache expects for index i
ExpectedName(i) == ReplacePatterns(HiddenSettings.name, i)

ExpectedLink(i) == ReplacePatterns(HiddenSettings.uri, i)

\* C1: when an iteration of process_read_cache fails, neither the reorder
\* nor sync_file has been executed and the cache file is what it was before
\* the run; at any moment the file is either untouched or holds the entries
\* of all N indices of a successful run.
C1_FailedRunPersistsNothing ==
    /\ (Finished /\ result \in IterationErrors) =>
           /\ reorders = 0
           /\ writes = 0
           /\ disk = diskBefore
    /\ \/ disk = diskBefore /\ writes = 0
       \/ /\ Succeeded
          /\ upserted = 0..(config.number - 1)
          /\ disk.state = "ok"
          /\ IndexKeys \subseteq KeysOf(disk.items)

\* a run that fails at index 1 after the entry of index 0 was put into the
\* in-memory cache
C1_Witness ==
    /\ Finished
    /\ result \in IterationErrors
    /\ index = 1
    /\ upserted = {0}
    /\ diskBefore.state = "ok"
    /\ cache # diskBefore.items

\* C2 (as stated): the unsupported-configuration error is returned before the
\* cache is touched and before any network call.
C2_FailsBeforeTouchingCache ==
    result = "UnsupportedConfiguration" =>
        /\ ~loaded
        /\ netCalls = 0
        /\ writes = 0

\* C2 (amended): without hidden settings the run sends no request and never
\* writes the cache file; the cache is loaded before the check, so the run
\* ends with the unsupported-configuration error only after a load that
\* succeeded, and with the load error when the cache file cannot be read.
C2_NoNetworkNoWrite ==
    config.hidden_settings = None =>
        /\ netCalls = 0
        /\ writes = 0
        /\ reorders = 0
        /\ disk = diskBefore
        /\ Finished => result \in {"ConfigError", "LoadError", "UnsupportedConfiguration"}
        /\ result = "UnsupportedConfiguration" => loaded /\ diskBefore.state # "corrupt"
        /\ (Finished /\ diskBefore.state = "corrupt") => result # "UnsupportedConfiguration"

C2_Witness ==
    /\ config.hidden_settings = None
    /\ config.number > 0
    /\ result = "UnsupportedConfiguration"
    /\ loaded
    /\ diskBefore.state = "absent"
    /\ disk = DiskAbsent

\* C3: a response with a non-success status to the metadata GET or to the
\* image GET of an index is fatal: no entry is recorded for that index, no
\* later index is processed, nothing is persisted and the run does not
\* succeed.
C3_NonSuccessStatusIsFatal ==
    \A i \in badStatus :
        /\ i \notin upserted
        /\ index <= i
        /\ writes = 0
        /\ ~Succeeded

\* C4: after a successful run the cache file holds an entry for each of the
\* keys "0".."N-1", these are the keys the run wrote, keys stay unique, and
\* every key that was there before and is not numeric is still there with
\* its item unchanged.
C4_ProducesIndexKeys ==
    Succeeded =>
        /\ disk.state = "ok"
        /\ IndexKeys \subseteq KeysOf(disk.items)
        /\ upserted = 0..(config.number - 1)
        /\ KeysOf(disk.items) = KeysOf(diskBefore.items) \cup IndexKeys
        /\ Cardinality(KeysOf(disk.items)) = Len(disk.items)
        /\ \A i \in 0..(config.number - 1) :
              LET item == ItemAt(disk.items, IndexToString(i))
              IN  /\ item.name = ExpectedName(i)
                  /\ item.metadata_link = ExpectedLink(i)
                  /\ item.on_chain = FALSE
                  /\ item.animation_hash = None
                  /\ item.animation_link = None
        /\ \A k \in KeysOf(diskBefore.items) :
              ~ParseInt(k).ok =>
                  /\ HasKey(disk.items, k)
                  /\ ItemAt(disk.items, k) = ItemAt(diskBefore.items, k)

\* a successful first run over two indices that found a non-numeric key
\* behind a key it does not write and moved it to the front
C4_Witness ==
    /\ Succeeded
    /\ run = 1
    /\ config.number = 2
    /\ KeySeq(diskBefore.items) = <<S_01, S_alpha>>
    /\ KeySeq(disk.items) = <<S_alpha, S_0, S_01, S_1>>

\* C5: an entry is inserted only for an index whose fetched metadata carries
\* exactly the expected name; a run that ends with the name-mismatch error at
\* index i has inserted the entries of the indices below i only and left the
\* cache file as it was before the run.
C5_NameMismatchIsFatal ==
    /\ \A i \in upserted :
          /\ remoteMeta[ExpectedLink(i)].known
          /\ ParseMetadata(remoteMeta[ExpectedLink(i)].body).ok
          /\ ParseMetadata(remoteMeta[ExpectedLink(i)].body).name = ExpectedName(i)
    /\ result = "NameMismatch" =>
          /\ ParseMetadata(metadata_text).name # ExpectedName(index)
          /\ upserted = 0..(index - 1)
          /\ index < config.number
          /\ reorders = 0
          /\ writes = 0
          /\ disk = diskBefore

\* the metadata of index 1 carries the name of index 0
C5_Witness ==
    /\ result = "NameMismatch"
    /\ index = 1
    /\ upserted = {0}
    /\ ParseMetadata(metadata_text).name = ExpectedName(0)
    /\ diskBefore.state = "ok"
    /\ diskBefore.items # <<>>

\* the two keys parse to the same integer
SameNumber(a, b) ==
    /\ ParseInt(a).ok
    /\ ParseInt(b).ok
    /\ ParseInt(a).val = ParseInt(b).val

\* C6 (as stated): the comparator of the reorder step returns Equal for
\* identical keys only.
C6_DistinctKeysNeverEqual ==
    reorders > 0 =>
        \A a, b \in KeysOf(cache) : KeyCmp(a, b) = "Equal" => a = b

\* C6 (amended): the comparator the reorder step has sorted the keys with
\* is a strict weak ordering of them; it returns Equal exactly for identical
\* keys and for keys that parse to the same integer.
C6_StrictWeakOrdering ==
    pc = "sync" =>
        LET ks == KeySeq(cache)
            n == Len(ks)
        IN  \A cmp \in {[p \in (1..n) \X (1..n) |-> KeyCmp(ks[p[1]], ks[p[2]])]} :
               /\ \A i, j \in 1..n :
                     /\ cmp[<<i, j>>] = "Equal" <=> (i = j \/ SameNumber(ks[i], ks[j]))
                     /\ cmp[<<i, j>>] = "Less" <=> cmp[<<j, i>>] = "Greater"
               /\ \A i, j, k \in 1..n :
                     /\ (cmp[<<i, j>>] = "Less" /\ cmp[<<j, k>>] = "Less")
                            => cmp[<<i, k>>] = "Less"
                     /\ (cmp[<<i, j>>] = "Equal" /\ cmp[<<j, k>>] = "Equal")
                            => cmp[<<i, k>>] = "Equal"

\* a reordered cache with three distinct keys that all parse to 1
C6_Witness ==
    /\ pc = "sync"
    /\ {S_1, S_01, S_plus1} \subseteq KeysOf(cache)
    /\ KeyCmp(S_1, S_01) = "Equal"
    /\ KeyCmp(S_01, S_plus1) = "Equal"

\* C7: after the reorder step the keys that do not parse as an integer come
\* first, in ascending string order, followed by the keys that parse, in
\* ascending numeric order; the entries are those handed to the step.
C7_NonNumericFirstThenNumeric ==
    reorders > 0 =>
        LET ks == KeySeq(cache)
        IN  /\ Len(cache) = Len(unsorted)
            /\ \A e \in {unsorted[j] : j \in 1..Len(unsorted)} :
                  \E j \in 1..Len(cache) : cache[j] = e
            /\ \A i, j \in 1..Len(ks) :
                  i < j =>
                      /\ ~(ParseInt(ks[i]).ok /\ ~ParseInt(ks[j]).ok)
                      /\ (~ParseInt(ks[i]).ok /\ ~ParseInt(ks[j]).ok)
                             => StrCmp(ks[i], ks[j]) = "Less"
                      /\ (ParseInt(ks[i]).ok /\ ParseInt(ks[j]).ok)
                             => ParseInt(ks[i]).val <= ParseInt(ks[j]).val
            /\ KeysOf(unsorted) = {S_10, S_2, S_alpha, S_1}
                  => ks = <<S_alpha, S_1, S_2, S_10>>

\* the keys "10", "2", "alpha", "1" have become "alpha", "1", "2", "10"
C7_Witness ==
    /\ pc = "sync"
    /\ KeySeq(unsorted) = <<S_10, S_2, S_alpha, S_1>>
    /\ KeySeq(cache) = <<S_alpha, S_1, S_2, S_10>>

\* C8: applying the reorder step to an already reordered cache leaves the
\* entries in the same order.
C8_ReorderIdempotent ==
    pc = "reordered_twice" => cache = once

\* reordered twice, from an order the reorder changed, with keys that
\* compare as equal
C8_Witness ==
    /\ pc = "reordered_twice"
    /\ KeySeq(unsorted) = <<S_plus1, S_alpha, S_01, S_1>>
    /\ KeySeq(once) = <<S_alpha, S_plus1, S_01, S_1>>
    /\ cache = once

\* C9: a second successful run, with the same configuration and against the
\* same remote content, started from the cache file the first run wrote,
\* leaves the cache file as the first run wrote it.
C9_RerunIdempotent ==
    (run > 1 /\ Succeeded) => disk = diskBefore

\* a second successful run that inserted an entry and received the image in
\* two chunks
C9_Witness ==
    /\ run = 2
    /\ Succeeded
    /\ config.number = 2
    /\ upserted = {0, 1}
    /\ Len(arrived) = 2
    /\ KeySeq(disk.items) = <<S_0, S_1, S_01>>

RECURSIVE Concat(_)
\* the bytes of a sequence of chunks, in order
Concat(chunks) ==
    IF chunks = <<>> THEN <<>>
    ELSE chunks[1] \o Concat(Tail(chunks))

\* C10: while an image is streamed, the digest context holds the chunks that
\* arrived, in arrival order; an inserted entry carries the digest of the
\* whole image body; a run that ends with a failed chunk has inserted no
\* entry for the index it was at and has neither reordered nor written.
C10_StreamHashedInOrderOrNotAtAll ==
    /\ pc = "image_next" =>
          /\ context = Concat(arrived)
          /\ context \o input = response.body
    /\ \A i \in upserted :
          LET item == ItemAt(cache, IndexToString(i))
          IN  /\ remoteImage[item.image_link].known
              /\ item.image_hash = [sha256 |-> remoteImage[item.image_link].body]
    /\ result = "TransferError" =>
          /\ index \notin upserted
          /\ HasKey(cache, IndexToString(index)) =>
                /\ HasKey(diskBefore.items, IndexToString(index))
                /\ ItemAt(cache, IndexToString(index))
                       = ItemAt(diskBefore.items, IndexToString(index))
          /\ reorders = 0
          /\ writes = 0

\* the stream of the image of index 1 failed after its first byte
C10_Witness ==
    /\ result = "TransferError"
    /\ index = 1
    /\ arrived = <<<<1>>>>
    /\ input = <<2>>
    /\ HasKey(cache, S_1)

\* the positions of the run inside an iteration of the loop
IterationPositions == {"meta_send", "meta_text", "validate", "image_send", "image_next"}

\* the errors process_read_cache logs with error! before it returns them
LoggedErrors == {"MetadataParseError", "NameMismatch", "UnsupportedConfiguration"}

\* C11 (as stated): no step of process_read_cache prints to the console or
\* writes to the log.
C11_NeverPrintsNorLogs ==
    /\ printed = 0
    /\ logged = 0

\* C11 (amended): the run returns success or one error to its caller, and it
\* also prints one progress line for every iteration it starts and logs the
\* error once when it is a metadata parse error, a name mismatch or the
\* unsupported configuration; the other errors are returned without a log.
C11_PrintsProgressLogsSomeErrors ==
    /\ printed = IF pc \in IterationPositions
                     \/ (Finished /\ result \in IterationErrors)
                 THEN index + 1
                 ELSE index
    /\ logged = IF result \in LoggedErrors THEN 1 ELSE 0
    /\ Finished <=> result # "none"

\* a run that printed two progress lines and logged the name mismatch of
\* index 1
C11_Witness ==
    /\ Finished
    /\ result = "NameMismatch"
    /\ printed = 2
    /\ logged = 1

AllIndices == 0..(config.number - 1)

\* C12: the cache file is written at most once in a run, by the sync_file
\* that ends a successful run, after the entry of every index was inserted
\* and the reorder was applied once; until then the file is as it was when
\* the run started. A successful run has written it exactly once, also when
\* the collection is empty.
C12_SingleSyncAfterUpsertsAndReorder ==
    /\ writes <= 1
    /\ reorders <= 1
    /\ writes = 0 => disk = diskBefore
    /\ reorders = 1 => upserted = AllIndices /\ index = config.number
    /\ writes = 1 =>
          /\ Succeeded
          /\ reorders = 1
          /\ disk = DiskCache(cache)
          /\ cache = SortBy(unsorted)
    /\ Succeeded => writes = 1
    /\ pc = "sync" => reorders = 1 /\ writes = 0

\* a successful run over an empty collection that reordered the loaded
\* cache and wrote it
C12_Witness ==
    /\ Succeeded
    /\ run = 1
    /\ config.number = 0
    /\ writes = 1
    /\ reorders = 1
    /\ KeySeq(diskBefore.items) = <<S_1, S_alpha>>
    /\ KeySeq(disk.items) = <<S_alpha, S_1>>

\* GET requests an iteration has sent when the run is at the given position
RequestsSentAt(position) ==
    IF position \in {"meta_text", "validate", "image_send"} THEN 1
    ELSE IF position = "image_next" THEN 2
    ELSE 0

\* C13: the indices are processed one at a time in ascending order: the
\* entries inserted so far are those of the indices below the current one,
\* the requests sent so far are the two of each of these indices and those
\* of the current iteration, and a run that fails in an iteration fails at
\* the lowest index that fails.
C13_AscendingOneAtATime ==
    /\ index <= config.number
    /\ upserted = 0..(index - 1)
    /\ pc \in IterationPositions =>
          /\ index < config.number
          /\ name = ExpectedName(index)
          /\ metadata_link = ExpectedLink(index)
          /\ netCalls = 2 * index + RequestsSentAt(pc)
    /\ pc \in {"loop", "reorder", "sync"} => netCalls = 2 * index
    /\ (Finished /\ result \in IterationErrors) =>
          /\ index < config.number
          /\ netCalls \in {2 * index + 1, 2 * index + 2}
    /\ (Finished /\ result \in {"Ok", "IoError"}) =>
          /\ index = config.number
          /\ netCalls = 2 * index

\* the metadata of index 1 is about to be requested, after the two requests
\* of index 0
C13_Witness ==
    /\ pc = "meta_send"
    /\ index = 1
    /\ upserted = {0}
    /\ netCalls = 2

\* the step of the run that inserts the item of the current index
IsUpsertStep == pc = "image_next" /\ pc' = "loop"

\* C14: the insert at the key of the current index replaces whatever entry
\* the cache held at that key by an item made of the expected name, the image
\* link of the metadata, the expanded URI, the digests of the image body and
\* of the metadata text received, on_chain = false and no animation; the key
\* keeps its position or is appended, and every other entry is left as it
\* was.
C14_UpsertLastWriteWins ==
    [][IsUpsertStep =>
          LET k == IndexToString(index)
              fresh == [name |-> ExpectedName(index),
                        image_hash |-> [sha256 |-> response.body],
                        image_link |-> ParseMetadata(metadata_text).image,
                        metadata_hash |-> [sha256 |-> metadata_text],
                        metadata_link |-> ExpectedLink(index),
                        on_chain |-> FALSE,
                        animation_hash |-> None,
                        animation_link |-> None]
          IN  /\ HasKey(cache', k)
              /\ ItemAt(cache', k) = fresh
              /\ Cardinality(KeysOf(cache')) = Len(cache')
              /\ Len(cache') = IF HasKey(cache, k) THEN Len(cache) ELSE Len(cache) + 1
              /\ \A j \in 1..Len(cache) :
                    /\ cache'[j].key = cache[j].key
                    /\ cache[j].key # k => cache'[j] = cache[j]
    ]_vars

\* the entry of key "1" that was on chain with an animation has been
\* replaced, the entry of key "alpha" in front of it is as it was loaded
C14_Witness ==
    /\ pc = "loop"
    /\ run = 1
    /\ index = 2
    /\ diskBefore.items = EntriesOf(<<S_alpha, S_1>>)
    /\ KeySeq(cache) = <<S_alpha, S_1, S_0>>
    /\ cache[1] = diskBefore.items[1]
    /\ cache[2].item.on_chain = FALSE
    /\ cache[2].item.animation_link = None
    /\ cache[2].item.name = ExpectedName(1)

\* the indices of this run whose entry, as inserted by this run, is in the
\* cache file
PersistedOfRun ==
    {i \in upserted :
        /\ disk.state = "ok"
        /\ HasKey(disk.items, IndexToString(i))
        /\ HasKey(cache, IndexToString(i))
        /\ ItemAt(disk.items, IndexToString(i)) = ItemAt(cache, IndexToString(i))}

\* C15: once the interrupt flag is set, whenever that happens before the end
\* of the run, the cache file is never written with the entries of only a
\* part of the indices: a write happens only with all of them inserted.
C15_InterruptPersistsNothingPartial ==
    interrupted =>
        /\ writes > 0 => upserted = AllIndices /\ PersistedOfRun = AllIndices
        /\ writes = 0 => disk = diskBefore

\* the flag was set during the run; the run went on and wrote the entries of
\* both indices
C15_Witness ==
    /\ interrupted
    /\ run = 1
    /\ Succeeded
    /\ config.number = 2
    /\ writes = 1
    /\ PersistedOfRun = {0, 1}
    /\ diskBefore.state = "absent"

\* position of key k in a cache
PositionOf(items, k) == CHOOSE j \in 1..Len(items) : items[j].key = k

\* C16: after a successful run the entries of the indices 0..N-1 are in the
\* cache file in ascending index order, for every collection size, also one
\* with indices beyond the range of the integer the comparator parses.
C16_PersistedInIndexOrder ==
    Succeeded =>
        \A i, j \in AllIndices :
            i < j => PositionOf(disk.items, IndexToString(i))
                        < PositionOf(disk.items, IndexToString(j))

\* the Unix timestamp the text of a date denotes, None when it is not a date
TimestampOf(text) == (CHOOSE c \in DateCases : c.text = text).timestamp

\* C17: EndSettings::to_candy_format returns an error whenever the field its
\* type needs is missing (Amount without number; Date without date, with a
\* text that is not a date, or with a date before Jan 1, 1970); otherwise it
\* returns Amount with the given number or Date with the Unix timestamp of the
\* date, whatever the field of the other type holds.
C17_EndSettingsErrorOrExactValue ==
    candy_end # None =>
        LET self == end_settings
            r == candy_end[1]
        IN  IF self.end_setting_type = "Amount"
            THEN IF self.number = None
                 THEN ~r.ok
                 ELSE /\ r.ok
                      /\ r.value = [end_setting_type |-> "Amount",
                                    number |-> self.number[1]]
            ELSE IF \/ self.date = None
                    \/ TimestampOf(self.date[1]) = None
                    \/ TimestampOf(self.date[1])[1] < 0
                 THEN ~r.ok
                 ELSE /\ r.ok
                      /\ r.value = [end_setting_type |-> "Date",
                                    number |-> TimestampOf(self.date[1])[1]]

\* a Date setting one second before Jan 1, 1970 that also carries a number:
\* the conversion failed and did not fall back to the number
C17_Witness ==
    /\ candy_end # None
    /\ end_settings = [end_setting_type |-> "Date", number |-> Some(7),
                       date |-> Some(Rfc3339(1969, 12, 31, 23, 59, 59))]
    /\ ~candy_end[1].ok

\* C18: HiddenSettings::to_candy_format copies name and uri, yields the bytes
\* of the hash string when it is exactly 32 bytes long, and yields 32 zero
\* bytes, not an error, for a hash string of any other length.
C18_HashCopiedOrAllZero ==
    candy_hidden # None =>
        LET r == candy_hidden[1]
        IN  /\ r.name = hidden.name
            /\ r.uri = hidden.uri
            /\ Len(r.hash) = 32
            /\ Len(hidden.hash) = 32 => r.hash = hidden.hash
            /\ Len(hidden.hash) # 32 => \A i \in 1..32 : r.hash[i] = 0

\* a hash string of 64 bytes, the length of a SHA-256 digest in hexadecimal,
\* was converted to the all-zero hash
C18_Witness ==
    /\ candy_hidden # None
    /\ Len(hidden.hash) = 64
    /\ candy_hidden[1].hash = [i \in 1..32 |-> 0]

====
